---- MODULE Spec2Model ----
(***************************************************************************)
(* QuestionnaireAnalysis (hw5.py): a table of questionnaire respondents    *)
(* and the four operations on it: show_age_distrib,                        *)
(* remove_rows_without_mail, fill_na_with_mean and score_subjects.         *)
(*                                                                         *)
(* The table self.data is a sequence of rows.  A row carries its index     *)
(* label and the columns age, email, q1..q5 and score.  The library calls  *)
(* of the source are modelled by what pandas 1.x / numpy do on these       *)
(* inputs: DataFrame.stack drops missing cells, a Series indexed by an     *)
(* integer array is looked up by label and raises KeyError on a label it   *)
(* does not have, and DataFrame.at[label] = Series falls back to           *)
(* DataFrame.loc[label, :] = Series, which aligns the Series with the      *)
(* columns.  Floating-point numbers are modelled as exact fractions.       *)
(***************************************************************************)
EXTENDS Integers, Sequences, FiniteSets, TLC

VARIABLES data, hasScore, op, arg, err, ret, pre

vars == <<data, hasScore, op, arg, err, ret, pre>>

(***************************************************************************)
(* Numbers.  A numeric cell is a fraction <<n, d>> in lowest terms with    *)
(* d > 0, or the missing marker NaN.                                       *)
(***************************************************************************)
NaN == <<"NaN">>

IsNum(x) == x # NaN

Abs(n) == IF n < 0 THEN -n ELSE n

RECURSIVE Gcd(_, _)
Gcd(a, b) == IF b = 0 THEN a ELSE Gcd(b, a % b)

Frac(n, d) ==
    LET g == Gcd(Abs(n), d)
    IN  IF g = 0 THEN <<0, 1>> ELSE <<n \div g, d \div g>>

Num(n) == <<n, 1>>

Add(x, y) == Frac(x[1] * y[2] + y[1] * x[2], x[2] * y[2])

DivBy(x, k) == Frac(x[1], x[2] * k)

Less(x, y) == x[1] * y[2] < y[1] * x[2]

LessEq(x, y) == x[1] * y[2] <= y[1] * x[2]

\* np.floor: round toward negative infinity.
Floor(x) == x[1] \div x[2]

RECURSIVE SumSeq(_)
SumSeq(s) == IF s = <<>> THEN Num(0) ELSE Add(Head(s), SumSeq(Tail(s)))

\* The values of s that are present, in order.
SelectNum(s) == SelectSeq(s, IsNum)

\* mean(skipna=True): the mean of the values present, NaN when there is none.
NanMean(s) ==
    LET v == SelectNum(s)
    IN  IF v = <<>> THEN NaN ELSE DivBy(SumSeq(v), Len(v))

NanCount(s) == Len(s) - Len(SelectNum(s))

(***************************************************************************)
(* Columns.                                                                *)
(***************************************************************************)
\* The grade columns selected by the label slice "q1":"q5".
NumQ == 5

QCols == 1..NumQ

Positions(s) == 1..Len(s)

Labels(d) == {d[i].label : i \in Positions(d)}

\* The row of d that carries label l (labels are unique).
RowOf(d, l) == d[CHOOSE i \in Positions(d) : d[i].label = l]

(***************************************************************************)
(* show_age_distrib: Axes.hist(age, np.linspace(0, 100, 11)), that is      *)
(* np.histogram with explicit bin edges.                                   *)
(***************************************************************************)
NumBins == 10

RangeLo == 0

RangeHi == 100

\* np.linspace(0, 100, 11): the 11 edges, edge j (1-based) = lo + (j-1)*step.
Linspace == [j \in 1..(NumBins + 1) |->
                Num(RangeLo + (j - 1) * ((RangeHi - RangeLo) \div NumBins))]

\* sorted(a).searchsorted(e, 'left'): how many values are < e (NaN sorts last).
SearchLeft(d, e) ==
    Cardinality({i \in Positions(d) : IsNum(d[i].age) /\ Less(d[i].age, e)})

\* sorted(a).searchsorted(e, 'right'): how many values are <= e.
SearchRight(d, e) ==
    Cardinality({i \in Positions(d) : IsNum(d[i].age) /\ LessEq(d[i].age, e)})

\* A faulty variant of SearchSortedInclusive: the last bin is half-open too.
SearchSortedAllLeft(d, edges, j) == SearchLeft(d, edges[j])

\* np.histogram's _search_sorted_inclusive: 'left' for every edge but the
\* last, 'right' for the last.
SearchSortedInclusive(d, edges, j) ==
    IF j < Len(edges) THEN SearchLeft(d, edges[j]) ELSE SearchRight(d, edges[j])

\* n = np.diff(cum_n)
Histogram(d, edges) ==
    [i \in 1..(Len(edges) - 1) |->
        SearchSortedInclusive(d, edges, i + 1) - SearchSortedInclusive(d, edges, i)]

(***************************************************************************)
(* remove_rows_without_mail.  An email is a sequence of characters, or     *)
(* NaN when the cell holds no string.                                      *)
(***************************************************************************)
\* isinstance(email, str): the cell holds a string.
IsStr(e) == e # NaN

WordChars == {"a", "b", "c", "d", "k", "m", "o", "u", "_", "7"}

IsWord(c) == c \in WordChars

\* \w+ : from a position of P, one or more word characters.
WordRun(s, P) ==
    {q \in 1..Len(s) : \E p \in P : p < q /\ \A k \in (p + 1)..q : IsWord(s[k])}

\* [\.-]?\w+
SepWord(s, P) ==
    WordRun(s, P \cup {p + 1 : p \in {x \in P : x < Len(s) /\ s[x + 1] \in {".", "-"}}})

\* ([\.-]?\w+)*
RECURSIVE SepWordStar(_, _)
SepWordStar(s, P) ==
    LET N == P \cup SepWord(s, P)
    IN  IF N = P THEN P ELSE SepWordStar(s, N)

\* \w+([\.-]?\w+)*
Name(s, P) == SepWordStar(s, WordRun(s, P))

\* @
AtSign(s, P) == {p + 1 : p \in {x \in P : x < Len(s) /\ s[x + 1] = "@"}}

\* \.\w{1,3}
Tld(s, P) ==
    {q \in 1..Len(s) : \E p \in P :
        /\ p < Len(s)
        /\ s[p + 1] = "."
        /\ q - (p + 1) \in 1..3
        /\ \A k \in (p + 2)..q : IsWord(s[k])}

\* (\.\w{1,3})+
RECURSIVE TldStar(_, _)
TldStar(s, P) ==
    LET N == P \cup Tld(s, P)
    IN  IF N = P THEN P ELSE TldStar(s, N)

TldPlus(s, P) == TldStar(s, Tld(s, P))

\* The positions at which the pattern between ^ and $ can end; ^ matches at
\* position 0 only.
PatternEnds(s) == TldPlus(s, Name(s, AtSign(s, Name(s, {0}))))

\* $ without re.MULTILINE: the end of the string, or just before a newline
\* that ends the string.
Dollar(s, p) == p = Len(s) \/ (p = Len(s) - 1 /\ s[Len(s)] = "\n")

\* re.search(regex, s) is not None
ReSearch(s) == \E p \in PatternEnds(s) : Dollar(s, p)

\* self.data.drop(index, inplace=True): the rows labelled l go.
Drop(d, l) == SelectSeq(d, LAMBDA r : r.label # l)

\* A faulty variant of DropLoop: it walks the table it is dropping from, so
\* the row after a dropped row is skipped.
RECURSIVE DropLoopLive(_, _, _)
DropLoopLive(snap, i, d) ==
    IF i > Len(d) THEN [data |-> d, err |-> "none"]
    ELSE IF ~IsStr(d[i].email) THEN [data |-> d, err |-> "TypeError"]
    ELSE IF ~ReSearch(d[i].email)
         THEN DropLoopLive(snap, i + 1, Drop(d, d[i].label))
         ELSE DropLoopLive(snap, i + 1, d)

\* for index, row in self.data.iterrows(): iterrows walks the index and the
\* values it read when the loop began (snap), and every row whose email does
\* not match is dropped from the live table d.  re.search raises TypeError on
\* a value that is no string; the rows dropped before that stay dropped.
RECURSIVE DropLoop(_, _, _)
DropLoop(snap, i, d) ==
    IF i > Len(snap) THEN [data |-> d, err |-> "none"]
    ELSE IF ~IsStr(snap[i].email) THEN [data |-> d, err |-> "TypeError"]
    ELSE IF ~ReSearch(snap[i].email)
         THEN DropLoop(snap, i + 1, Drop(d, snap[i].label))
         ELSE DropLoop(snap, i + 1, d)

\* A faulty variant of ResetIndex: the old labels are kept.
ResetIndexKeep(d) ==
    [i \in Positions(d) |->
        [label |-> d[i].label, index |-> d[i].label, age |-> d[i].age,
         email |-> d[i].email, q |-> d[i].q, score |-> d[i].score]]

\* self.data.reset_index(): a new table, labelled 0..k-1, whose new column
\* "index" holds the old labels.
ResetIndex(d) ==
    [i \in Positions(d) |->
        [label |-> i - 1, index |-> d[i].label, age |-> d[i].age,
         email |-> d[i].email, q |-> d[i].q, score |-> d[i].score]]

(***************************************************************************)
(* fill_na_with_mean.                                                      *)
(***************************************************************************)
HasGrade(r) == \E c \in QCols : IsNum(r.q[c])

\* The set S of integers as an increasing sequence (np.unique sorts).
RECURSIVE SortedSeq(_)
SortedSeq(S) ==
    IF S = {} THEN <<>>
    ELSE LET m == CHOOSE x \in S : \A y \in S : x <= y
         IN  <<m>> \o SortedSeq(S \ {m})

Range(s) == {s[i] : i \in Positions(s)}

\* self.data.loc[:, "q1":"q5"].stack().unstack(level=0): the transposed grade
\* table.  stack drops the missing cells, so its columns are the rows of the
\* data that have a grade (StackedRows, in order) and its index the grade
\* columns that have a grade (StackedCols).
StackedRows(d) == SelectSeq(d, HasGrade)

StackedCols(d) == {c \in QCols : \E i \in Positions(d) : IsNum(d[i].q[c])}

\* means = grades_df.mean(axis=0): for each column of grades_df, that is for
\* each respondent's label, the mean of that respondent's grades.
Means(g) == [l \in Labels(g) |-> NanMean(RowOf(g, l).q)]

\* A faulty variant of ItemsWithNans: the first array of np.where, the
\* positions along the index of grades_df (the questions).
QuestionsWithNans(g, cols) ==
    SortedSeq({Cardinality({k \in cols : k < c}) : c \in
        {x \in cols : \E p \in Positions(g) : ~IsNum(g[p].q[x])}})

\* _, columns = np.where(grades_df.isna()); np.unique(columns): the 0-based
\* positions, among the columns of grades_df, of those that hold a NaN.
ItemsWithNans(g, cols) ==
    SortedSeq({p - 1 : p \in
        {x \in Positions(g) : \E c \in cols : ~IsNum(g[x].q[c])}})

\* A faulty variant of FillValue: the mean of the question over the
\* respondents (mean(axis=1) of grades_df).
FillValueOfQuestion(g, l, c) == NanMean([p \in Positions(g) |-> g[p].q[c]])

\* The value fillna(means[items_with_nans], axis=0) puts in the cell of the
\* column labelled l of grades_df: means[l].
FillValue(g, l, c) == Means(g)[l]

\* grades_df.fillna(means[items], axis=0): a Series given as the value is read
\* as {column label: value}; the NaN cells of the columns it names are filled.
FillNa(g, cols, keys) ==
    [p \in Positions(g) |->
        [g[p] EXCEPT !.q =
            [c \in QCols |->
                IF c \in cols /\ ~IsNum(g[p].q[c]) /\ g[p].label \in keys
                THEN FillValue(g, g[p].label, c)
                ELSE g[p].q[c]]]]

\* return_df.loc[:, "q1":"q5"] = filled.stack().unstack(level=0): the value is
\* aligned with the rows and the grade columns of the data; a row or a column
\* the value does not have is set to NaN.
AssignGrades(d, f, cols) ==
    [i \in Positions(d) |->
        [d[i] EXCEPT !.q =
            [c \in QCols |->
                IF d[i].label \in Labels(f) /\ c \in cols
                THEN RowOf(f, d[i].label).q[c]
                ELSE NaN]]]

\* The whole of fill_na_with_mean on the table d: the table it leaves, the
\* array it returns and the error it raises.  means[items_with_nans] looks the
\* positions up as labels of means and raises KeyError on one that is none.
FillNaWithMean(d) ==
    LET g     == StackedRows(d)
        cols  == StackedCols(d)
        items == ItemsWithNans(g, cols)
    IN  IF ~(Range(items) \subseteq Labels(g))
        THEN [data |-> d, items |-> <<>>, err |-> "KeyError"]
        ELSE [data  |-> AssignGrades(d, FillNa(g, cols, Range(items)), cols),
              items |-> items,
              err   |-> "none"]

(***************************************************************************)
(* score_subjects.                                                         *)
(***************************************************************************)
UInt8Modulus == 256

\* grades_df.mean(axis=1).apply(np.floor): a whole number, or NaN for a row
\* without grades.
FloorMean(r) ==
    LET m == NanMean(r.q) IN IF IsNum(m) THEN Num(Floor(m)) ELSE NaN

\* values.astype(uint8): the value modulo 2^8 (NaN is masked).
CastUInt8(x) == IF IsNum(x) THEN Num(x[1] % UInt8Modulus) ELSE NaN

\* A faulty variant of SafeCastOk: the cast is not checked.
UncheckedCast(d) == TRUE

\* pandas' safe_cast, (casted == values).all(): astype('UInt8') raises
\* TypeError unless every value survives the cast unchanged.
SafeCastOk(d) == \A i \in Positions(d) : CastUInt8(FloorMean(d[i])) = FloorMean(d[i])

\* return_df['score'] = means.values
SetScores(d) == [i \in Positions(d) |-> [d[i] EXCEPT !.score = CastUInt8(FloorMean(d[i]))]]

\* A faulty variant of TooManyNans: >= for >.
TooManyNansInclusive(r, m) == NanCount(r.q) >= m

\* row.isna().sum() > maximal_nans_per_sub, on the row of grades_df.
TooManyNans(r, m) == NanCount(r.q) > m

\* row['score'] = np.nan; return_df.at[index] = row: the Series row holds
\* q1..q5 and score only; the assignment aligns it with the columns of
\* return_df, so every column it does not hold (age, email) becomes NaN.
BlankRow(r) == [label |-> r.label, age |-> NaN, email |-> NaN, q |-> r.q, score |-> NaN]

\* for index, row in grades_df.iterrows(): ...
BlankRows(d, m) ==
    [i \in Positions(d) |-> IF TooManyNans(d[i], m) THEN BlankRow(d[i]) ELSE d[i]]

(***************************************************************************)
(* The operations.  pre is the table as the last call found it, ret what   *)
(* the last call returned, err the exception it raised ("none": it         *)
(* returned).                                                              *)
(***************************************************************************)
NoRet == [table |-> <<>>, items |-> <<>>, hist |-> <<>>, edges |-> <<>>]

Snapshot == [data |-> data, hasScore |-> hasScore]

ShowAgeDistrib ==
    /\ op' = "show_age_distrib"
    /\ pre' = Snapshot
    /\ arg' = 0
    /\ err' = "none"
    /\ ret' = [NoRet EXCEPT !.hist = Histogram(data, Linspace), !.edges = Linspace]
    /\ UNCHANGED <<data, hasScore>>

RemoveRowsWithoutMail ==
    LET r == DropLoop(data, 1, data)
    IN  /\ op' = "remove_rows_without_mail"
        /\ pre' = Snapshot
        /\ arg' = 0
        /\ data' = r.data
        /\ err' = r.err
        /\ ret' = IF r.err = "none"
                  THEN [NoRet EXCEPT !.table = ResetIndex(r.data)]
                  ELSE NoRet
        /\ UNCHANGED hasScore

FillNaWithMeanCall ==
    LET r == FillNaWithMean(data)
    IN  /\ op' = "fill_na_with_mean"
        /\ pre' = Snapshot
        /\ arg' = 0
        /\ data' = r.data
        /\ err' = r.err
        /\ ret' = IF r.err = "none"
                  THEN [NoRet EXCEPT !.table = r.data, !.items = r.items]
                  ELSE NoRet
        /\ UNCHANGED hasScore

ScoreSubjects(m) ==
    /\ op' = "score_subjects"
    /\ pre' = Snapshot
    /\ arg' = m
    /\ IF SafeCastOk(data)
       THEN /\ data' = BlankRows(SetScores(data), m)
            /\ hasScore' = TRUE
            /\ err' = "none"
            /\ ret' = [NoRet EXCEPT !.table = data']
       ELSE /\ err' = "TypeError"
            /\ ret' = NoRet
            /\ UNCHANGED <<data, hasScore>>

Next ==
    \/ ShowAgeDistrib
    \/ RemoveRowsWithoutMail
    \/ FillNaWithMeanCall
    \/ \E m \in 0..NumQ : ScoreSubjects(m)

(***************************************************************************)
(* The loaded datasets.  read_data leaves a table labelled 0..n-1 with the *)
(* columns age, email, q1..q5 and no score column.                         *)
(***************************************************************************)
MaxAgeRows == 2

MaxMailRows == 2

MaxGradeRows == 2

Ages == {Num(a) : a \in {-1, 0, 5, 10, 15, 55, 90, 95, 100, 101, 105}}

ValidMail == <<"a", "@", "b", ".", "c", "o">>

InvalidMail == <<"a", "b", "-", "c", "d">>

NewlineMail == <<"a", "@", "b", ".", "c", "o", "\n">>

Emails ==
    { ValidMail, InvalidMail, NewlineMail, NaN,
      <<>>,
      <<"a", "@", "b">>,
      <<"a", ".", "b", "@", "c", "-", "d", ".", "c", "o", ".", "u", "k">>,
      <<"a", "@", "b", ".", "c", "o", "m", "m">>,
      <<"a", ".", ".", "b", "@", "c", ".", "c", "o">>,
      <<"a", "@", "b", ".", "c", "o", "\n", "\n">>,
      <<"a", "_", "7", "@", "b", ".", "c", "7">> }

G(a, b, c, d, e) == <<a, b, c, d, e>>

GradeRows ==
    { G(Num(1), Num(2), Num(3), Num(4), Num(5)),
      G(Num(1), NaN, Num(3), Num(4), Num(5)),
      G(NaN, NaN, Num(255), Num(255), Num(256)),
      G(NaN, NaN, NaN, NaN, NaN),
      G(Num(300), Num(300), NaN, Num(300), Num(300)),
      G(Num(-1), Num(0), Num(0), Num(0), Num(0)) }

CompleteGrades == G(Num(1), Num(2), Num(3), Num(4), Num(5))

Row(l, a, e, g) == [label |-> l, age |-> a, email |-> e, q |-> g, score |-> NaN]

Loaded(d) ==
    /\ data = d
    /\ hasScore = FALSE
    /\ op = "read_data"
    /\ arg = 0
    /\ err = "none"
    /\ ret = NoRet
    /\ pre = [data |-> d, hasScore |-> FALSE]

InitAge ==
    \E n \in 1..MaxAgeRows : \E a \in [1..n -> Ages] :
        Loaded([i \in 1..n |-> Row(i - 1, a[i], ValidMail, CompleteGrades)])

InitMail ==
    \E n \in 1..MaxMailRows : \E e \in [1..n -> Emails] :
        Loaded([i \in 1..n |-> Row(i - 1, Num(30), e[i], CompleteGrades)])

\* The respondents of the grade datasets: every grade row with a valid email,
\* and one respondent with an invalid email.
Respondents ==
    {[email |-> ValidMail, q |-> g] : g \in GradeRows}
        \cup {[email |-> InvalidMail, q |-> CompleteGrades]}

Init ==
    \E n \in 1..MaxGradeRows : \E r \in [1..n -> Respondents] :
        Loaded([i \in 1..n |-> Row(i - 1, Num(30), r[i].email, r[i].q)])

SpecAge == InitAge /\ [][Next]_vars

SpecMail == InitMail /\ [][Next]_vars

Spec == Init /\ [][Next]_vars

(***************************************************************************)
(* Properties.  Called(f) : the last call was f; Returned(f) : and it      *)
(* returned.                                                               *)
(***************************************************************************)
Called(f) == op = f

Returned(f) == op = f /\ err = "none"

\* The pattern matches the entire string s.
FullMatch(s) == Len(s) \in PatternEnds(s)

Removed(l) == l \in Labels(pre.data) /\ l \notin Labels(data)

AllEmailsAreStrings(d) == \A i \in Positions(d) : IsStr(d[i].email)

\* C1: after remove_rows_without_mail on a table whose emails are all
\* strings, every remaining row's email matches the pattern over the entire
\* string and every removed row's email does not.
C1_RemainingMatchEntireString ==
    (Returned("remove_rows_without_mail") /\ AllEmailsAreStrings(pre.data)) =>
        /\ \A i \in Positions(data) : FullMatch(data[i].email)
        /\ \A i \in Positions(pre.data) :
              Removed(pre.data[i].label) => ~FullMatch(pre.data[i].email)

\* C2: a missing email does not make remove_rows_without_mail fail: the row
\* is removed as a non-match and the rows with a valid email around it stay.
C2_MissingEmailIsRemoved ==
    Called("remove_rows_without_mail") =>
        /\ err = "none"
        /\ \A i \in Positions(pre.data) :
              LET r == pre.data[i]
              IN  /\ ~IsStr(r.email) => r.label \notin Labels(data)
                  /\ (IsStr(r.email) /\ FullMatch(r.email)) => r.label \in Labels(data)

\* The mean of grade column c over the rows of d that have a value in it.
ColumnMean(d, c) == NanMean([i \in Positions(d) |-> d[i].q[c]])

\* The mean of the grades a row has.
RowMean(r) == NanMean(r.q)

ZeroBased(d) == \A i \in Positions(d) : d[i].label = i - 1

Increasing(s) == \A i, j \in Positions(s) : i < j => s[i] < s[j]

\* C4 as stated: the array fill_na_with_mean returns is the sorted set of the
\* 0-based positions of the grade columns that had a missing value.
C4_ItemsAreColumnPositions ==
    Returned("fill_na_with_mean") =>
        /\ Increasing(ret.items)
        /\ Range(ret.items) =
              {c - 1 : c \in {x \in QCols :
                  \E i \in Positions(pre.data) : ~IsNum(pre.data[i].q[x])}}

\* C4, amended: the array is the sorted set of the 0-based positions of the
\* rows that miss a grade in a column that has one, counted among the rows
\* that have a grade; a row that misses no grade is not in it.
C4_ItemsAreRowPositions ==
    Returned("fill_na_with_mean") =>
        LET graded == SelectSeq(pre.data, HasGrade)
        IN  /\ Increasing(ret.items)
            /\ Range(ret.items) =
                  {p - 1 : p \in {x \in Positions(graded) :
                      \E c \in QCols :
                          /\ ~IsNum(graded[x].q[c])
                          /\ \E j \in Positions(pre.data) : IsNum(pre.data[j].q[c])}}
            /\ \A p \in Positions(graded) :
                  NanCount(graded[p].q) = 0 => (p - 1) \notin Range(ret.items)

\* The second row misses q1 and q2 and the first misses nothing: the array is
\* the row position 1, not the column positions 0 and 1.
C4_Witness ==
    /\ Returned("fill_na_with_mean")
    /\ Len(pre.data) = 2
    /\ NanCount(pre.data[1].q) = 0
    /\ ~IsNum(pre.data[2].q[1]) /\ ~IsNum(pre.data[2].q[2]) /\ IsNum(pre.data[2].q[3])
    /\ ret.items = <<1>>

\* floor(mean(non-missing q1..q5)); the missing marker when there is none.
FloorOfMean(q) ==
    LET v == SelectSeq(q, IsNum)
    IN  IF v = <<>> THEN NaN
        ELSE LET t == SumSeq(v) IN Num((t[1]) \div (t[2] * Len(v)))

\* C5: after score_subjects(m), a row with at most m missing grades has the
\* floor of the mean of its grades as score, and a row with more than m
\* missing grades has the missing marker.
C5_ScoreIsFloorMeanOrMissing ==
    Returned("score_subjects") =>
        /\ hasScore
        /\ Len(data) = Len(pre.data)
        /\ \A i \in Positions(pre.data) :
              LET q == pre.data[i].q
              IN  IF NanCount(q) <= arg
                  THEN data[i].score = FloorOfMean(q)
                  ELSE data[i].score = NaN

\* With m = 1: a row with one missing grade scores 3 = floor(13/4) and a row
\* with two missing grades scores the missing marker.
C5_Witness ==
    /\ Returned("score_subjects")
    /\ arg = 1
    /\ \E i \in Positions(data) :
          NanCount(pre.data[i].q) = 1 /\ data[i].score = Num(3)
    /\ \E i \in Positions(data) :
          NanCount(pre.data[i].q) = 2 /\ data[i].score = NaN

UInt8Values == {Num(n) : n \in 0..255}

OutOfRange(d) ==
    \E i \in Positions(d) :
        IsNum(FloorOfMean(d[i].q)) /\ FloorOfMean(d[i].q) \notin UInt8Values

\* C6: score_subjects stores no wrapped or truncated score: a stored score is
\* the missing marker or a whole number in 0..255 equal to the computed floor,
\* and when some row's floor is outside 0..255 the call raises and stores
\* nothing.
C6_NoWrappedScore ==
    Called("score_subjects") =>
        IF OutOfRange(pre.data)
        THEN err = "TypeError" /\ data = pre.data /\ hasScore = pre.hasScore
        ELSE /\ err = "none"
             /\ \A i \in Positions(data) :
                   \/ data[i].score = NaN
                   \/ /\ data[i].score \in UInt8Values
                      /\ data[i].score = FloorOfMean(pre.data[i].q)

\* The call raised because a floor is above 255 or below 0.
C6_Witness ==
    /\ Called("score_subjects")
    /\ err = "TypeError"
    /\ \E i \in Positions(pre.data) : FloorOfMean(pre.data[i].q) = Num(300)

InBin(a, i) ==
    /\ LessEq(Num(10 * i), a)
    /\ IF i < 9 THEN Less(a, Num(10 * i + 10)) ELSE LessEq(a, Num(100))

RECURSIVE SumInts(_)
SumInts(s) == IF s = <<>> THEN 0 ELSE Head(s) + SumInts(Tail(s))

\* C7: show_age_distrib returns 10 counts and the edges 0,10,...,100; count i
\* is the number of rows with age in [10i, 10i+10), in [90,100] for i = 9;
\* the counts sum to the number of rows with age in [0,100].
C7_AgeHistogram ==
    Called("show_age_distrib") =>
        /\ err = "none"
        /\ Len(ret.hist) = 10
        /\ ret.edges = [j \in 1..11 |-> Num(10 * (j - 1))]
        /\ \A i \in 0..9 :
              ret.hist[i + 1] =
                  Cardinality({k \in Positions(data) :
                      IsNum(data[k].age) /\ InBin(data[k].age, i)})
        /\ SumInts(ret.hist) =
              Cardinality({k \in Positions(data) :
                  /\ IsNum(data[k].age)
                  /\ LessEq(Num(0), data[k].age)
                  /\ LessEq(data[k].age, Num(100))})

\* An age of 100 is counted in the last bin and an age above 100 in none.
C7_Witness ==
    /\ Called("show_age_distrib")
    /\ \E k \in Positions(data) : data[k].age = Num(100)
    /\ \E k \in Positions(data) : data[k].age = Num(105)
    /\ ret.hist[10] = 1
    /\ SumInts(ret.hist) = 1

\* C8: remove_rows_without_mail is idempotent: a call that follows a call of
\* it leaves the table as it found it and returns (or raises) the same.
C8_Idempotent ==
    [][(Called("remove_rows_without_mail") /\ op' = "remove_rows_without_mail")
          => (data' = data /\ ret' = ret /\ err' = err)]_vars

\* A call found a table from which rows had been removed, and kept all of it.
C8_Witness ==
    /\ Returned("remove_rows_without_mail")
    /\ data # <<>>
    /\ ~ZeroBased(data)
    /\ pre.data = data

SameRow(a, b) ==
    a.age = b.age /\ a.email = b.email /\ a.q = b.q /\ a.score = b.score

\* C9: when remove_rows_without_mail keeps k rows, the table it returns holds
\* them in their order, indexed 0..k-1, and the owned table holds the same
\* rows in the same order, each under the label it had.
C9_IndexResetOnlyInReturn ==
    Returned("remove_rows_without_mail") =>
        /\ Len(ret.table) = Len(data)
        /\ \A i \in Positions(data) :
              /\ ret.table[i].label = i - 1
              /\ SameRow(ret.table[i], data[i])
              /\ data[i].label \in Labels(pre.data)
              /\ data[i] = RowOf(pre.data, data[i].label)
        /\ \A i, j \in Positions(data) : i < j => data[i].label < data[j].label

\* The first row was removed: the kept row is row 0 of the returned table and
\* still row 1 of the owned table.
C9_Witness ==
    /\ Returned("remove_rows_without_mail")
    /\ Len(pre.data) = 2
    /\ Len(data) = 1
    /\ data[1].label = 1
    /\ ret.table[1].label = 0

\* C10: score_subjects changes nothing but the score column: the rows and
\* their order are the same and every other column of every row is unchanged.
C10_OnlyScoreChanges ==
    Called("score_subjects") =>
        /\ Len(data) = Len(pre.data)
        /\ \A i \in Positions(pre.data) :
              /\ data[i].label = pre.data[i].label
              /\ data[i].age = pre.data[i].age
              /\ data[i].email = pre.data[i].email
              /\ data[i].q = pre.data[i].q
====
